---------------------------- MODULE Spec2Model ----------------------------
(***************************************************************************)
(* A model of the game-state bridge of vue3-nichessboard:                  *)
(*   src/src/helper/Board.ts         coordinate mapping, fullRerender,     *)
(*                                   possibleMoves, deep merge/copy/diff   *)
(*   src/src/helper/DefaultConfig.ts the default configuration template    *)
(*   src/src/classes/BoardApi.ts     the BoardApi class                    *)
(*                                                                         *)
(* The rules engine (package nichess) and the visual board (package        *)
(* nichessground) are collaborators outside the repository.  They are      *)
(* modelled at the interface BoardApi uses: the engine as a small game on  *)
(* a few squares of the 8x8 board (pieces with health points, two players, *)
(* a king whose death ends the game, a ply limit that draws it), the board *)
(* as the fields of its state that BoardApi reads or writes.               *)
(***************************************************************************)
EXTENDS Integers, Sequences, FiniteSets, TLC

(***************************************************************************)
(* Bounds of the model.                                                    *)
(***************************************************************************)
\* plies the engine plays before it declares a draw
MaxPlies == 3
\* pieces the engine's piece list may hold (putPiece appends)
MaxPieces == 3
\* times a hook may be wrapped by setConfig before the model stops wrapping
MaxWraps == 2
\* direct edits of the engine (putPiece, setCurrentPlayer) the host makes in a run
MaxEdits == 1

(***************************************************************************)
(* Board shape and players, imported from nichess.                         *)
(***************************************************************************)
NUM_ROWS == 8
NUM_SQUARES == 64
PLAYER_1 == 0
PLAYER_2 == 1

\* parseInt of something that is no digit
NaN == -1000

(***************************************************************************)
(* CoordinateMapper (Board.ts).  A key is the sequence of its characters.  *)
(***************************************************************************)
DigitChars == <<"0", "1", "2", "3", "4", "5", "6", "7", "8", "9">>

RECURSIVE NumToString(_)
NumToString(n) ==
    IF n < 10 THEN <<DigitChars[n + 1]>>
    ELSE NumToString(n \div 10) \o <<DigitChars[(n % 10) + 1]>>

parseInt(c) ==
    IF \E d \in 1..10 : DigitChars[d] = c
    THEN (CHOOSE d \in 1..10 : DigitChars[d] = c) - 1
    ELSE NaN

squareIndexToCoordinates(squareIndex) ==
    LET x == squareIndex - (squareIndex \div NUM_ROWS) * NUM_ROWS
        y == squareIndex \div NUM_ROWS
    IN  <<x + 1, y + 1>>

squareIndexToKey(squareIndex) ==
    LET file(x) == CASE x = 1 -> <<"a">>
                     [] x = 2 -> <<"b">>
                     [] x = 3 -> <<"c">>
                     [] x = 4 -> <<"d">>
                     [] x = 5 -> <<"e">>
                     [] x = 6 -> <<"f">>
                     [] x = 7 -> <<"g">>
                     [] x = 8 -> <<"h">>
                     [] OTHER -> <<>>
        key(xy) == file(xy[1]) \o NumToString(xy[2])
    IN  key(squareIndexToCoordinates(squareIndex))

\* a variant of keyToSquareIndex that forgets the rank is counted from 1; the
\* round-trip property must tell it from the function
keyToSquareIndexRankFromZero(key) ==
    LET x == IF Len(key) >= 1 /\ key[1] \in {"a", "b", "c", "d", "e", "f", "g", "h"}
             THEN CHOOSE n \in 0..7 : <<"a", "b", "c", "d", "e", "f", "g", "h">>[n + 1] = key[1]
             ELSE 0
        index(p) == IF p = NaN THEN NaN ELSE p * NUM_ROWS + x
    IN  index(parseInt(IF Len(key) >= 2 THEN key[2] ELSE "undefined"))

keyToSquareIndex(key) ==
    LET x(firstChar) == CASE firstChar = "a" -> 0
                          [] firstChar = "b" -> 1
                          [] firstChar = "c" -> 2
                          [] firstChar = "d" -> 3
                          [] firstChar = "e" -> 4
                          [] firstChar = "f" -> 5
                          [] firstChar = "g" -> 6
                          [] firstChar = "h" -> 7
                          [] OTHER -> 0
        index(p, file) == IF p = NaN THEN NaN ELSE (p - 1) * NUM_ROWS + file
    IN  index(parseInt(IF Len(key) >= 2 THEN key[2] ELSE "undefined"),
              x(IF Len(key) >= 1 THEN key[1] ELSE "undefined"))

Indices == 0..(NUM_SQUARES - 1)
AllKeys == {squareIndexToKey(i) : i \in Indices}
NoKey == <<>>


(***************************************************************************)
(* The rules engine (nichess Api), as BoardApi and Board.ts use it.  Its   *)
(* state is the piece list (dead pieces stay in it with no health points), *)
(* the current player and the number of plies played.                      *)
(***************************************************************************)
PieceOwner(pt) ==
    IF pt \in {"P1_KING", "P1_MAGE", "P1_WARRIOR", "P1_ASSASSIN", "P1_KNIGHT", "P1_PAWN"}
    THEN PLAYER_1 ELSE PLAYER_2

IsKing(pt) == pt \in {"P1_KING", "P2_KING"}

KING_HP == 10
PAWN_HP == 30

\* the squares the model's game is played on, and which of them are neighbours
Arena == {0, 1, 8}
Adjacent == {<<0, 1>>, <<1, 0>>, <<0, 8>>, <<8, 0>>, <<1, 8>>, <<8, 1>>}

EngineInit ==
    [pieces |-> << [type |-> "P1_KING", squareIndex |-> 0, healthPoints |-> KING_HP],
                   [type |-> "P2_KING", squareIndex |-> 8, healthPoints |-> KING_HP] >>,
     player |-> PLAYER_1,
     ply |-> 0]

Alive(p) == p.healthPoints > 0

\* indices into the piece list of the live pieces standing on square i
LiveAt(g, i) ==
    {k \in 1..Len(g.pieces) : Alive(g.pieces[k]) /\ g.pieces[k].squareIndex = i}

currentPlayer(g) == g.player

allPiecesByPlayer(g, player) ==
    SelectSeq(g.pieces, LAMBDA p : PieceOwner(p.type) = player)

RECURSIVE SetToSeq(_)
SetToSeq(S) ==
    IF S = {} THEN <<>>
    ELSE LET m == CHOOSE x \in S : \A y \in S : x <= y
         IN  <<m>> \o SetToSeq(S \ {m})

\* destinations the piece on square i of the player to move may act on
LegalDests(g, i) ==
    IF \E k \in LiveAt(g, i) : PieceOwner(g.pieces[k].type) = g.player
    THEN {d \in Arena : <<i, d>> \in Adjacent
                        /\ \A k \in LiveAt(g, d) : PieceOwner(g.pieces[k].type) # g.player}
    ELSE {}

legalActionsBySquare(g, i) ==
    LET ds == SetToSeq(LegalDests(g, i))
    IN  [n \in 1..Len(ds) |-> [srcIdx |-> i, dstIdx |-> ds[n]]]

\* the action carried out: the piece on src goes to dst, a piece standing there dies
ApplyAction(g, src, dst) ==
    IF LiveAt(g, src) = {} \/ src = dst THEN g
    ELSE LET m == CHOOSE k \in LiveAt(g, src) : TRUE
         IN  [g EXCEPT
                !.pieces = [k \in 1..Len(g.pieces) |->
                              IF k = m THEN [g.pieces[k] EXCEPT !.squareIndex = dst]
                              ELSE IF k \in LiveAt(g, dst)
                                   THEN [g.pieces[k] EXCEPT !.healthPoints = 0]
                                   ELSE g.pieces[k]],
                !.player = 1 - g.player,
                \* the count stops at the ply that draws the game
                !.ply = IF g.ply < MaxPlies THEN g.ply + 1 ELSE g.ply]

\* makeAction: a legal action is carried out.  What the engine does with an
\* action outside its legal set is its own business: it may refuse it
\* (unchecked = FALSE) or carry it out without looking (unchecked = TRUE).
makeAction(g, src, dst, unchecked) ==
    IF dst \in LegalDests(g, src) \/ unchecked THEN ApplyAction(g, src, dst) ELSE g

KingDead(g) ==
    \E k \in 1..Len(g.pieces) : IsKing(g.pieces[k].type) /\ ~Alive(g.pieces[k])

draw(g) == ~KingDead(g) /\ g.ply >= MaxPlies

isGameOver(g) == KingDead(g) \/ draw(g)

\* e4 e5 -> move number 2
moveNumber(g) == (g.ply \div 2) + 1

\* The position string: the player to move and the live pieces by square.
boardToString(g) ==
    [player |-> g.player,
     cells |-> {[squareIndex |-> g.pieces[k].squareIndex, type |-> g.pieces[k].type,
                 healthPoints |-> g.pieces[k].healthPoints] :
                    k \in {j \in 1..Len(g.pieces) : Alive(g.pieces[j])}}]

RECURSIVE CellsToSeq(_)
CellsToSeq(cells) ==
    IF cells = {} THEN <<>>
    ELSE LET c == CHOOSE x \in cells : \A y \in cells : x.squareIndex <= y.squareIndex
         IN  <<[type |-> c.type, squareIndex |-> c.squareIndex,
                healthPoints |-> c.healthPoints]>> \o CellsToSeq(cells \ {c})

boardFromString(fen) ==
    [pieces |-> CellsToSeq(fen.cells), player |-> fen.player, ply |-> 0]

engineReset == EngineInit

addPieceOk(g, squareIndex) == squareIndex \in Indices /\ LiveAt(g, squareIndex) = {}

addPiece(g, pieceType, squareIndex, healthPoints) ==
    IF addPieceOk(g, squareIndex)
    THEN [g EXCEPT !.pieces = Append(g.pieces,
             [type |-> pieceType, squareIndex |-> squareIndex, healthPoints |-> healthPoints])]
    ELSE g

engineSetCurrentPlayer(g, player) == [g EXCEPT !.player = player]

initialPos == boardToString(EngineInit)

\* another position a host may load: the second player to move, next to the king
altPos ==
    [player |-> PLAYER_2,
     cells |-> {[squareIndex |-> 1, type |-> "P1_KING", healthPoints |-> KING_HP],
                [squareIndex |-> 8, type |-> "P2_KING", healthPoints |-> KING_HP]}]


(***************************************************************************)
(* Configuration trees.  A value is a tagged record:                       *)
(*   undef            undefined                                            *)
(*   prim             a boolean, number or string (val spells it)          *)
(*   fen              a position string                                    *)
(*   fn               a function: base names the innermost function and    *)
(*                    wraps counts the setConfig wrappers around it        *)
(*   arr              an array                                             *)
(*   map              a Map instance                                       *)
(*   obj              a plain object; fields maps its own keys to values   *)
(***************************************************************************)
Undef == [kind |-> "undef"]
Prim(v) == [kind |-> "prim", val |-> v]
Fen(s) == [kind |-> "fen", snap |-> s]
Fn(w, b) == [kind |-> "fn", wraps |-> w, base |-> b]
Arr == [kind |-> "arr"]
MapOf(e) == [kind |-> "map", entries |-> e]
Obj(f) == [kind |-> "obj", fields |-> f]
EmptyObj == Obj(<<>>)

\* ArrRef(r): an array, told from other arrays by its reference r
ArrRef(r) == [kind |-> "arr", ref |-> r]

\* Object identity: a plain object that exists before an operation carries the
\* name of its owner; an object an operation creates (Obj) carries none.
\* Owned(value, owner) is the tree value with every plain object in it owned.
RECURSIVE Owned(_, _)
Owned(value, owner) ==
    IF value.kind = "obj"
    THEN [kind |-> "obj",
          fields |-> [key \in DOMAIN value.fields |-> Owned(value.fields[key], owner)],
          owner |-> owner]
    ELSE value

\* whose object value is: "" for an object made by the operation in progress
OwnerOf(value) ==
    IF value.kind = "obj" /\ "owner" \in DOMAIN value THEN value.owner ELSE ""

\* Boolean(value)
Truthy(v) ==
    /\ v.kind # "undef"
    /\ ~(v.kind = "prim" /\ v.val \in {"false", "0", ""})

\* value?.[key]
Get(v, key) ==
    IF v.kind = "obj" /\ key \in DOMAIN v.fields THEN v.fields[key] ELSE Undef

\* key in value
HasKey(v, key) == v.kind = "obj" /\ key \in DOMAIN v.fields

\* the own enumerable entries of a value, as Object.entries and a spread see them
OwnKeys(v) == IF v.kind = "obj" THEN DOMAIN v.fields ELSE {}

isObject(value) == Truthy(value) /\ value.kind \in {"obj", "map"}

\* a variant of deepCopy that hands back the value it was given
deepCopyByReference(value) == value

RECURSIVE deepCopy(_)
deepCopy(value) ==
    IF isObject(value)
    THEN Obj([key \in OwnKeys(value) |-> deepCopy(Get(value, key))])
    ELSE value

\* a variant of deepMergeConfig that spreads the source first: the target's
\* value wins where both have a key
RECURSIVE deepMergeConfigTargetWins(_, _)
deepMergeConfigTargetWins(target, source) ==
    LET keys == OwnKeys(target) \cup OwnKeys(source)
        spread(key) == IF key \in OwnKeys(target) THEN Get(target, key) ELSE Get(source, key)
    IN  Obj([key \in keys |->
               IF isObject(Get(target, key)) /\ isObject(Get(source, key))
               THEN deepMergeConfigTargetWins(Get(target, key), Get(source, key))
               ELSE deepCopy(spread(key))])

\* a variant of deepMergeConfig that passes over the keys the source holds
\* undefined
RECURSIVE deepMergeConfigSkipsUndefined(_, _)
deepMergeConfigSkipsUndefined(target, source) ==
    LET keys == OwnKeys(target) \cup OwnKeys(source)
        spread(key) == IF key \in OwnKeys(source) /\ Get(source, key) # Undef
                       THEN Get(source, key) ELSE Get(target, key)
    IN  Obj([key \in keys |->
               IF isObject(Get(target, key)) /\ isObject(Get(source, key))
               THEN deepMergeConfigSkipsUndefined(Get(target, key), Get(source, key))
               ELSE deepCopy(spread(key))])

RECURSIVE deepMergeConfig(_, _)
deepMergeConfig(target, source) ==
    LET \* { ...target, ...source }
        keys == OwnKeys(target) \cup OwnKeys(source)
        spread(key) == IF key \in OwnKeys(source) THEN Get(source, key) ELSE Get(target, key)
    IN  Obj([key \in keys |->
               IF isObject(Get(target, key)) /\ isObject(Get(source, key))
               THEN deepMergeConfig(Get(target, key), Get(source, key))
               ELSE deepCopy(spread(key))])

\* a variant of deepDiffConfig that leaves out the keys both configs hold an
\* object under
deepDiffConfigSkipsNested(oldConfig, newConfig) ==
    Obj([key \in {k \in OwnKeys(newConfig) :
                     /\ ~(isObject(Get(oldConfig, k)) /\ isObject(Get(newConfig, k)))
                     /\ Get(oldConfig, k) # Get(newConfig, k)} |-> Get(newConfig, key)])

\* a variant of deepDiffConfig that keeps a sub-diff that came out empty
RECURSIVE deepDiffConfigKeepsEmpty(_, _)
deepDiffConfigKeepsEmpty(oldConfig, newConfig) ==
    LET both(key) == isObject(Get(oldConfig, key)) /\ isObject(Get(newConfig, key))
    IN  Obj([key \in {k \in OwnKeys(newConfig) :
                         both(k) \/ Get(oldConfig, k) # Get(newConfig, k)} |->
               IF both(key)
               THEN deepDiffConfigKeepsEmpty(Get(oldConfig, key), Get(newConfig, key))
               ELSE Get(newConfig, key)])

\* deepDiffConfig: the keys of newConfig whose value is not oldConfig's; where
\* both hold an object the sub-diff, when it has a key
RECURSIVE deepDiffConfig(_, _)
deepDiffConfig(oldConfig, newConfig) ==
    LET both(key) == isObject(Get(oldConfig, key)) /\ isObject(Get(newConfig, key))
        subDiff(key) == deepDiffConfig(Get(oldConfig, key), Get(newConfig, key))
    IN  Obj([key \in {k \in OwnKeys(newConfig) :
                         IF both(k) THEN OwnKeys(subDiff(k)) # {}
                         ELSE Get(oldConfig, k) # Get(newConfig, k)} |->
               IF both(key) THEN subDiff(key) ELSE Get(newConfig, key)])

(***************************************************************************)
(* DefaultConfig.ts                                                        *)
(***************************************************************************)
K(file, rank) == <<file, rank>>

possibleMovesWhite ==
    MapOf((K("b", "1") :> <<K("a", "3"), K("c", "3")>>) @@
          (K("g", "1") :> <<K("f", "3"), K("h", "3")>>) @@
          (K("a", "2") :> <<K("a", "3"), K("a", "4")>>) @@
          (K("b", "2") :> <<K("b", "3"), K("b", "4")>>) @@
          (K("c", "2") :> <<K("c", "3"), K("c", "4")>>) @@
          (K("d", "2") :> <<K("d", "3"), K("d", "4")>>) @@
          (K("e", "2") :> <<K("e", "3"), K("e", "4")>>) @@
          (K("f", "2") :> <<K("f", "3"), K("f", "4")>>) @@
          (K("g", "2") :> <<K("g", "3"), K("g", "4")>>) @@
          (K("h", "2") :> <<K("h", "3"), K("h", "4")>>))

Brush(key, color, opacity, lineWidth) ==
    Obj([key |-> Prim(key), color |-> Prim(color), opacity |-> Prim(opacity),
         lineWidth |-> Prim(lineWidth)])

defaultBoardConfig ==
    Obj([fen |-> Fen(initialPos),
         orientation |-> Prim("white"),
         turnColor |-> Prim("white"),
         coordinates |-> Prim("false"),
         autoCastle |-> Prim("true"),
         viewOnly |-> Prim("false"),
         disableContextMenu |-> Prim("false"),
         addPieceZIndex |-> Prim("false"),
         blockTouchScroll |-> Prim("false"),
         highlight |-> Obj([lastMove |-> Prim("true"), check |-> Prim("true")]),
         animation |-> Obj([enabled |-> Prim("true"), duration |-> Prim("300")]),
         lastMove |-> Undef,
         movable |-> Obj([free |-> Prim("false"),
                          color |-> Prim("white"),
                          showDests |-> Prim("true"),
                          dests |-> possibleMovesWhite,
                          events |-> Obj([after |-> Fn(0, "noop"), afterNewPiece |-> Undef]),
                          rookCastle |-> Prim("true")]),
         premovable |-> Obj([enabled |-> Prim("true"),
                             showDests |-> Prim("true"),
                             castle |-> Prim("true"),
                             events |-> Obj([set |-> Undef, unset |-> Undef])]),
         predroppable |-> Obj([enabled |-> Prim("false"),
                               events |-> Obj([set |-> Undef, unset |-> Undef])]),
         draggable |-> Obj([enabled |-> Prim("true"),
                            distance |-> Prim("3"),
                            autoDistance |-> Prim("true"),
                            showGhost |-> Prim("true"),
                            deleteOnDropOff |-> Prim("false")]),
         selectable |-> Obj([enabled |-> Prim("true")]),
         events |-> Obj([change |-> Undef, move |-> Undef, dropNewPiece |-> Undef,
                         select |-> Undef, insert |-> Undef]),
         drawable |-> Obj([enabled |-> Prim("true"),
                           visible |-> Prim("true"),
                           defaultSnapToValidMove |-> Prim("true"),
                           eraseOnClick |-> Prim("true"),
                           shapes |-> Arr,
                           autoShapes |-> Arr,
                           brushes |-> Obj([green |-> Brush("g", "#15781B", "1", "10"),
                                            red |-> Brush("r", "#882020", "1", "10"),
                                            blue |-> Brush("b", "#003088", "1", "10"),
                                            yellow |-> Brush("y", "#e68f00", "1", "10"),
                                            paleBlue |-> Brush("pb", "#003088", "0.4", "15"),
                                            paleGreen |-> Brush("pg", "#15781B", "0.4", "15"),
                                            paleRed |-> Brush("pr", "#882020", "0.4", "15"),
                                            paleGrey |-> Brush("pgr", "#4a4a4a", "0.35", "15")])])])


(***************************************************************************)
(* The visual board (nichessground Api), as BoardApi uses it.              *)
(*   pieces     the piece map: a key is in it iff its square shows a piece *)
(*   turnColor, selected, movable.{free,color,dests,events.after},         *)
(*   premovable.current (premove)                                          *)
(***************************************************************************)
\* an undefined entry of a piece map handed to setPieces
NoPiece == [role |-> "none", color |-> "none", healthPoints |-> 0]
NoPieces == <<>>

\* the board Chessground(boardElement) returns, before any configuration
BoardNew ==
    [pieces |-> NoPieces,
     turnColor |-> "white",
     selected |-> NoKey,
     movable |-> [free |-> TRUE, color |-> "both", dests |-> Undef, after |-> Undef],
     premove |-> <<>>]

opposite(color) == IF color = "white" THEN "black" ELSE "white"

nichessTypeToRole(pt) ==
    CASE pt = "P1_KING" -> "king"
      [] pt = "P1_MAGE" -> "queen"
      [] pt = "P1_WARRIOR" -> "rook"
      [] pt = "P1_ASSASSIN" -> "bishop"
      [] pt = "P1_KNIGHT" -> "knight"
      [] pt = "P1_PAWN" -> "pawn"
      [] pt = "P2_KING" -> "king"
      [] pt = "P2_MAGE" -> "queen"
      [] pt = "P2_WARRIOR" -> "rook"
      [] pt = "P2_ASSASSIN" -> "bishop"
      [] pt = "P2_KNIGHT" -> "knight"
      [] pt = "P2_PAWN" -> "pawn"
      [] OTHER -> "error"

nichessTypeToColor(pt) ==
    CASE pt \in {"P1_KING", "P1_MAGE", "P1_WARRIOR", "P1_ASSASSIN", "P1_KNIGHT", "P1_PAWN"}
           -> "white"
      [] pt \in {"P2_KING", "P2_MAGE", "P2_WARRIOR", "P2_ASSASSIN", "P2_KNIGHT", "P2_PAWN"}
           -> "black"
      [] OTHER -> "error"

PieceView(cp) ==
    [role |-> nichessTypeToRole(cp.type), color |-> nichessTypeToColor(cp.type),
     healthPoints |-> cp.healthPoints]

\* cg.setPieces(diff): a piece is set, an undefined entry deletes
setPieces(pieces, diff) ==
    LET deleted == {key \in DOMAIN diff : diff[key] = NoPiece}
    IN  [key \in (DOMAIN pieces \cup DOMAIN diff) \ deleted |->
            IF key \in DOMAIN diff THEN diff[key] ELSE pieces[key]]

\* the first loop of fullRerender: every square's key, undefined
ClearedDiff == [key \in {squareIndexToKey(i) : i \in 0..(NUM_SQUARES - 1)} |-> NoPiece]

\* one loop of fullRerender over a piece list: dead pieces are skipped
RECURSIVE RenderPieces(_, _, _)
RenderPieces(pieceDiff, list, i) ==
    IF i > Len(list) THEN pieceDiff
    ELSE LET cp == list[i]
             key == squareIndexToKey(cp.squareIndex)
         IN  IF cp.healthPoints <= 0
             THEN RenderPieces(pieceDiff, list, i + 1)
             ELSE RenderPieces((key :> PieceView(cp)) @@ pieceDiff, list, i + 1)

\* a variant of fullRerender that leaves out the second loop, over the pieces of
\* the player who is not to move
fullRerenderCurrentPlayerOnly(pieces, nichess) ==
    setPieces(pieces,
              RenderPieces(ClearedDiff, allPiecesByPlayer(nichess, currentPlayer(nichess)), 1))

fullRerender(pieces, nichess) ==
    LET mine == RenderPieces(ClearedDiff, allPiecesByPlayer(nichess, currentPlayer(nichess)), 1)
        all == RenderPieces(mine, allPiecesByPlayer(nichess, 1 - currentPlayer(nichess)), 1)
    IN  setPieces(pieces, all)

\* The loop of possibleMoves: every square with legal actions gets an entry under
\* its key; were two squares to share a key, the later one would overwrite.
possibleMoves(game) ==
    LET sources == {i \in 0..(NUM_SQUARES - 1) : Len(legalActionsBySquare(game, i)) > 0}
        srcKeys == {squareIndexToKey(i) : i \in sources}
        last(key) == CHOOSE i \in sources :
                        /\ squareIndexToKey(i) = key
                        /\ \A j \in sources : squareIndexToKey(j) = key => j <= i
    IN  MapOf([key \in srcKeys |->
                 LET legalMoves == legalActionsBySquare(game, last(key))
                 IN  [m \in 1..Len(legalMoves) |-> squareIndexToKey(legalMoves[m].dstIdx)]])

\* the board's reading of a position string into its piece map
fenRead(fen) ==
    [key \in {squareIndexToKey(c.squareIndex) : c \in fen.cells} |->
        PieceView(CHOOSE c \in fen.cells : squareIndexToKey(c.squareIndex) = key)]

\* board.move(orig, dest): the piece is moved on the board (no rule is asked)
boardMove(b, orig, dest) ==
    IF orig = dest \/ orig \notin DOMAIN b.pieces THEN b
    ELSE [b EXCEPT !.pieces = [key \in (DOMAIN b.pieces \ {orig}) \cup {dest} |->
                                 IF key = dest THEN b.pieces[orig] ELSE b.pieces[key]],
                   !.selected = IF dest = b.selected THEN NoKey ELSE b.selected]

PrimBool(v) == v.kind = "prim" /\ v.val = "true"
PrimStr(v) == IF v.kind = "prim" THEN v.val ELSE "undefined"

\* board.set(config): the configuration is merged into the board's state
boardSet(b, config) ==
    LET mv == Get(config, "movable")
        ev == Get(mv, "events")
        dests0 == IF Truthy(Get(mv, "dests")) THEN Undef ELSE b.movable.dests
    IN  [b EXCEPT
           !.pieces = IF Truthy(Get(config, "fen")) THEN fenRead(Get(config, "fen").snap) ELSE @,
           !.turnColor = IF HasKey(config, "turnColor")
                         THEN PrimStr(Get(config, "turnColor")) ELSE @,
           !.selected = IF HasKey(config, "selected") /\ ~Truthy(Get(config, "selected"))
                        THEN NoKey ELSE @,
           !.movable = [free |-> IF HasKey(mv, "free") THEN PrimBool(Get(mv, "free")) ELSE @.free,
                        color |-> IF HasKey(mv, "color") THEN PrimStr(Get(mv, "color")) ELSE @.color,
                        dests |-> IF HasKey(mv, "dests") THEN Get(mv, "dests") ELSE dests0,
                        after |-> IF HasKey(ev, "after") THEN Get(ev, "after") ELSE @.after]]

\* canMove(state, orig, dest) of the board: what a gesture may play
isMovable(b, orig) ==
    /\ orig \in DOMAIN b.pieces
    /\ \/ b.movable.color = "both"
       \/ b.movable.color = b.pieces[orig].color /\ b.turnColor = b.pieces[orig].color

canMove(b, orig, dest) ==
    /\ orig # dest
    /\ isMovable(b, orig)
    /\ \/ b.movable.free
       \/ /\ b.movable.dests.kind = "map"
          /\ orig \in DOMAIN b.movable.dests.entries
          /\ \E n \in 1..Len(b.movable.dests.entries[orig]) :
                b.movable.dests.entries[orig][n] = dest

canPremove(b, orig, dest) ==
    /\ orig # dest
    /\ orig \in DOMAIN b.pieces
    /\ b.movable.color = b.pieces[orig].color
    /\ b.turnColor # b.pieces[orig].color

baseUserMove(b, orig, dest) ==
    LET moved == boardMove(b, orig, dest)
    IN  [moved EXCEPT !.movable.dests = Undef, !.turnColor = opposite(b.turnColor)]


(***************************************************************************)
(* BoardApi (BoardApi.ts).  The state of the program:                      *)
(*   game     this.game, the rules engine's state                          *)
(*   board    this.board.state                                             *)
(*   viewer   this.boardState.historyViewerState                           *)
(*   props    this.props (boardConfig, playerColor), fixed at construction *)
(*   held     a config object the host keeps and passes to setConfig       *)
(*   template the module's defaultBoardConfig object                       *)
(*   micro    the microtask queue (nextTick, await continuations)          *)
(*   timers   the board's deferred calls of a hook (its callUserFunction)  *)
(*   trace    what the operation in progress did, in order (a board.set    *)
(*            step with the config it handed to the board)                 *)
(*   edits    how many times the host has edited the engine directly       *)
(*   call     the last operation: its name, arguments and result, and what *)
(*            held of its arguments when it was called                     *)
(***************************************************************************)
VARIABLES game, board, viewer, props, held, template, micro, timers, trace, edits, call

vars == <<game, board, viewer, props, held, template, micro, timers, trace, edits, call>>

St == [game |-> game, board |-> board, viewer |-> viewer, props |-> props,
       held |-> held, template |-> template, micro |-> micro, timers |-> timers,
       trace |-> trace, edits |-> edits, ret |-> "void"]

Ev(name, orig, dest, arg) == [ev |-> name, orig |-> orig, dest |-> dest, arg |-> arg]

Log(S, name, orig, dest, arg) == [S EXCEPT !.trace = Append(@, Ev(name, orig, dest, arg))]

Live == [isEnabled |-> FALSE, plyViewing |-> 0]
Viewing(ply) == [isEnabled |-> TRUE, plyViewing |-> ply]

getTurnColor(S) == IF currentPlayer(S.game) = PLAYER_1 THEN "white" ELSE "black"

getCurrentTurnNumber(S) == moveNumber(S.game)

getCurrentPlyNumber(S) ==
    2 * getCurrentTurnNumber(S) - (IF getTurnColor(S) = "black" THEN 1 ELSE 2)

getHistory(S) == <<>>

getPossibleMoves(S) == possibleMoves(S.game)

getIsGameOver(S) == isGameOver(S.game)

\* a variant of emitEvents that reports every end of the game as a checkmate
emitEventsAlwaysCheckmate(S) ==
    IF isGameOver(S.game)
    THEN Log(S, "emit.checkmate", NoKey, NoKey, S.board.turnColor)
    ELSE S

emitEvents(S) ==
    IF isGameOver(S.game)
    THEN IF draw(S.game)
         THEN Log(S, "emit.draw", NoKey, NoKey, "")
         ELSE Log(S, "emit.checkmate", NoKey, NoKey, S.board.turnColor)
    ELSE S

updateGameState(S, updateFen) ==
    LET setFen(b) == IF updateFen
                     THEN boardSet(b, Obj([fen |-> Fen(boardToString(S.game))]))
                     ELSE b
        setTurn(b) == [b EXCEPT !.turnColor = getTurnColor(S)]
        setMovable(b) ==
            IF b.movable.free
            THEN [b EXCEPT !.movable.color = "both", !.movable.dests = MapOf(<<>>)]
            ELSE [b EXCEPT !.movable.color = IF S.props.playerColor # "undefined"
                                             THEN S.props.playerColor ELSE b.turnColor,
                           !.movable.dests = possibleMoves(S.game)]
    IN  emitEvents(Log(IF ~S.viewer.isEnabled
                       THEN [S EXCEPT !.board = setMovable(setTurn(setFen(S.board)))]
                       ELSE S,
                       "updateGameState", NoKey, NoKey, ""))

\* a variant of forbidMoves that hands the board to the side to move
forbidMovesSetsTurnColor(S) == [S EXCEPT !.board.movable.color = S.board.turnColor]

forbidMoves(S) == [S EXCEPT !.board.movable.color = "undefined"]

allowMoves(S) == [S EXCEPT !.board.movable.color = S.board.turnColor]

setCurrentPlayer(S, player) == [S EXCEPT !.game = engineSetCurrentPlayer(S.game, player)]

\* a variant of isMoveLegal that looks at the origin only
isMoveLegalIgnoresDest(S, from, to) ==
    LET srcIdx == keyToSquareIndex(from)
        legalActions == legalActionsBySquare(S.game, srcIdx)
    IN  \E i \in 1..Len(legalActions) : legalActions[i].srcIdx = srcIdx

\* the loop of isMoveLegal over the engine's legal actions of the origin square
isMoveLegal(S, from, to) ==
    LET srcIdx == keyToSquareIndex(from)
        dstIdx == keyToSquareIndex(to)
        legalActions == legalActionsBySquare(S.game, srcIdx)
    IN  \E i \in 1..Len(legalActions) :
           legalActions[i].srcIdx = srcIdx /\ legalActions[i].dstIdx = dstIdx

\* a legality test that tries the move on the engine
isMoveLegalByTrying(S, from, to) ==
    [S EXCEPT !.game = makeAction(S.game, keyToSquareIndex(from), keyToSquareIndex(to), FALSE),
              !.ret = IF isMoveLegal(S, from, to) THEN "true" ELSE "false"]

\* the call isMoveLegal(move) as the host sees it: the fields it leaves and
\* the value it returns
isMoveLegalCall(S, from, to) ==
    [S EXCEPT !.ret = IF isMoveLegal(S, from, to) THEN "true" ELSE "false"]

\* a variant of move that forgets to schedule the premove
moveWithoutNextTick(S, isObj, from, to, emitEvent, unchecked) ==
    LET makeActionStep(T) ==
            Log([T EXCEPT !.game = makeAction(T.game, keyToSquareIndex(from),
                                              keyToSquareIndex(to), unchecked)],
                "game.makeAction", from, to, "")
        boardMoveStep(T) ==
            Log([T EXCEPT !.board = boardMove(T.board, from, to)], "board.move", from, to, "")
        rerender(T) ==
            Log([T EXCEPT !.board.pieces = fullRerender(T.board.pieces, T.game)],
                "fullRerender", NoKey, NoKey, "")
        emitMove(T) == IF emitEvent THEN Log(T, "emit.move", from, to, "") ELSE T
        forbid(T) == IF isGameOver(T.game)
                     THEN Log(forbidMoves(T), "forbidMoves", NoKey, NoKey, "")
                     ELSE T
    IN  IF isObj
        THEN [forbid(updateGameState(
                  emitMove(rerender(boardMoveStep(makeActionStep(S)))), FALSE))
                EXCEPT !.ret = "true"]
        ELSE [S EXCEPT !.ret = "false"]

\* move(move, emitEvent): isObject says whether the argument is a {from, to}
\* object (it is a notation string otherwise)
move(S, isObj, from, to, emitEvent, unchecked) ==
    LET makeActionStep(T) ==
            Log([T EXCEPT !.game = makeAction(T.game, keyToSquareIndex(from),
                                              keyToSquareIndex(to), unchecked)],
                "game.makeAction", from, to, "")
        boardMoveStep(T) ==
            Log([T EXCEPT !.board = boardMove(T.board, from, to)], "board.move", from, to, "")
        rerender(T) ==
            Log([T EXCEPT !.board.pieces = fullRerender(T.board.pieces, T.game)],
                "fullRerender", NoKey, NoKey, "")
        emitMove(T) == IF emitEvent THEN Log(T, "emit.move", from, to, "") ELSE T
        nextTick(T) ==
            Log([T EXCEPT !.micro = Append(@, [k |-> "playPremove", fn |-> Undef,
                                               orig |-> NoKey, dest |-> NoKey])],
                "nextTick", NoKey, NoKey, "playPremove")
        forbid(T) == IF isGameOver(T.game)
                     THEN Log(forbidMoves(T), "forbidMoves", NoKey, NoKey, "")
                     ELSE T
    IN  IF isObj
        THEN [forbid(nextTick(updateGameState(
                  emitMove(rerender(boardMoveStep(makeActionStep(S)))), FALSE)))
                EXCEPT !.ret = "true"]
        ELSE [S EXCEPT !.ret = "false"]

changeTurn(S, orig, dest, unchecked) ==
    [Log(move(Log(S, "changeTurn", orig, dest, ""), TRUE, orig, dest, TRUE, unchecked),
         "changeTurn.done", orig, dest, "")
       EXCEPT !.ret = "void"]

\* a variant of setPosition that refreshes the state without the position
setPositionWithoutFen(S, fen) ==
    updateGameState(
        [Log([S EXCEPT !.game = boardFromString(fen.snap)], "setPosition", NoKey, NoKey, "")
           EXCEPT !.viewer = Live],
        FALSE)

\* setPosition(fen)
setPosition(S, fen) ==
    updateGameState(
        [Log([S EXCEPT !.game = boardFromString(fen.snap)], "setPosition", NoKey, NoKey, "")
           EXCEPT !.viewer = Live],
        TRUE)

putPiece(S, pieceType, squareIndex, healthPoints) ==
    LET rerender(T) ==
            Log([T EXCEPT !.board.pieces = fullRerender(T.board.pieces, T.game)],
                "fullRerender", NoKey, NoKey, "")
    IN  IF addPieceOk(S.game, squareIndex)
        THEN [Log(rerender([S EXCEPT !.game = addPiece(S.game, pieceType, squareIndex,
                                                       healthPoints)]),
                  "board.redrawAll", NoKey, NoKey, "")
                EXCEPT !.ret = "true"]
        ELSE [S EXCEPT !.ret = "false"]

\* a variant of patchAfter that leaves an unset slot unset
patchAfterLeavesUnset(userAfter) ==
    IF Truthy(userAfter)
    THEN Fn(userAfter.wraps + 1, userAfter.base)
    ELSE Undef

\* the value setConfig writes into config.movable.events.after
patchAfter(userAfter) ==
    IF Truthy(userAfter)
    THEN Fn(userAfter.wraps + 1, userAfter.base)
    ELSE Fn(0, "changeTurn")

\* config.movable.events.after = fn: a write into the object events, which stays
\* the object it was
WithAfter(config, fn) ==
    LET written(ev) == [ev EXCEPT !.fields = ("after" :> fn) @@ @]
        inMovable(mv) == [mv EXCEPT !.fields = ("events" :> written(Get(mv, "events"))) @@ @]
    IN  [config EXCEPT !.fields = ("movable" :> inMovable(Get(config, "movable"))) @@ @]

WithoutKey(config, key) == Obj([k \in DOMAIN config.fields \ {key} |-> config.fields[k]])

\* a setConfig that leaves the selection alone when it fills the defaults in
setConfigKeepsSelection(S, config, fillDefaults, isHeld) ==
    LET filled(c) == IF fillDefaults THEN deepMergeConfig(S.template, c) ELSE c
        deselect(T) == T
        events(c) == Get(Get(c, "movable"), "events")
        patch(c) == Truthy(events(c)) /\ HasKey(events(c), "after")
        patched(c) == IF patch(c) THEN WithAfter(c, patchAfter(Get(events(c), "after"))) ELSE c
        \* the patch lands in the caller's object when no copy was made
        writeBack(T, c) ==
            IF patch(c) /\ ~fillDefaults /\ isHeld THEN [T EXCEPT !.held = patched(c)] ELSE T
        \* and in the default template when the patched object is the template's
        writeTemplate(T, c) ==
            IF patch(c) /\ OwnerOf(events(c)) = "defaultBoardConfig"
            THEN [T EXCEPT !.template = WithAfter(@, patchAfter(Get(events(c), "after")))]
            ELSE T
        set(T, configWithoutFen) ==
            Log([T EXCEPT !.board = boardSet(T.board, configWithoutFen)],
                "board.set", NoKey, NoKey, configWithoutFen)
        position(T, fen) == IF Truthy(fen) THEN setPosition(T, fen) ELSE T
        apply(c, c2) ==
            position(set(writeTemplate(writeBack(deselect(S), c), c), WithoutKey(c2, "fen")),
                     Get(c2, "fen"))
        run(c) == apply(c, patched(c))
    IN  [Log(run(filled(config)), "board.redrawAll", NoKey, NoKey, "") EXCEPT !.ret = "void"]

\* a setConfig that applies the position before the rest of the config
setConfigPositionFirst(S, config, fillDefaults, isHeld) ==
    LET filled(c) == IF fillDefaults THEN deepMergeConfig(S.template, c) ELSE c
        deselect(T) == IF fillDefaults THEN [T EXCEPT !.board.selected = NoKey] ELSE T
        events(c) == Get(Get(c, "movable"), "events")
        patch(c) == Truthy(events(c)) /\ HasKey(events(c), "after")
        patched(c) == IF patch(c) THEN WithAfter(c, patchAfter(Get(events(c), "after"))) ELSE c
        \* the patch lands in the caller's object when no copy was made
        writeBack(T, c) ==
            IF patch(c) /\ ~fillDefaults /\ isHeld THEN [T EXCEPT !.held = patched(c)] ELSE T
        \* and in the default template when the patched object is the template's
        writeTemplate(T, c) ==
            IF patch(c) /\ OwnerOf(events(c)) = "defaultBoardConfig"
            THEN [T EXCEPT !.template = WithAfter(@, patchAfter(Get(events(c), "after")))]
            ELSE T
        set(T, configWithoutFen) ==
            Log([T EXCEPT !.board = boardSet(T.board, configWithoutFen)],
                "board.set", NoKey, NoKey, configWithoutFen)
        position(T, fen) == IF Truthy(fen) THEN setPosition(T, fen) ELSE T
        apply(c, c2) ==
            set(position(writeTemplate(writeBack(deselect(S), c), c), Get(c2, "fen")),
                WithoutKey(c2, "fen"))
        run(c) == apply(c, patched(c))
    IN  [Log(run(filled(config)), "board.redrawAll", NoKey, NoKey, "") EXCEPT !.ret = "void"]

\* setConfig(config, fillDefaults): isHeld says that config is the object the
\* host keeps, which setConfig then writes its patch into
setConfig(S, config, fillDefaults, isHeld) ==
    LET filled(c) == IF fillDefaults THEN deepMergeConfig(S.template, c) ELSE c
        deselect(T) == IF fillDefaults THEN [T EXCEPT !.board.selected = NoKey] ELSE T
        events(c) == Get(Get(c, "movable"), "events")
        patch(c) == Truthy(events(c)) /\ HasKey(events(c), "after")
        patched(c) == IF patch(c) THEN WithAfter(c, patchAfter(Get(events(c), "after"))) ELSE c
        \* the patch lands in the caller's object when no copy was made
        writeBack(T, c) ==
            IF patch(c) /\ ~fillDefaults /\ isHeld THEN [T EXCEPT !.held = patched(c)] ELSE T
        \* and in the default template when the patched object is the template's
        writeTemplate(T, c) ==
            IF patch(c) /\ OwnerOf(events(c)) = "defaultBoardConfig"
            THEN [T EXCEPT !.template = WithAfter(@, patchAfter(Get(events(c), "after")))]
            ELSE T
        set(T, configWithoutFen) ==
            Log([T EXCEPT !.board = boardSet(T.board, configWithoutFen)],
                "board.set", NoKey, NoKey, configWithoutFen)
        position(T, fen) == IF Truthy(fen) THEN setPosition(T, fen) ELSE T
        apply(c, c2) ==
            position(set(writeTemplate(writeBack(deselect(S), c), c), WithoutKey(c2, "fen")),
                     Get(c2, "fen"))
        run(c) == apply(c, patched(c))
    IN  [Log(run(filled(config)), "board.redrawAll", NoKey, NoKey, "") EXCEPT !.ret = "void"]

\* a variant of resetBoard that does not fill the defaults in
resetBoardWithoutDefaults(S) ==
    LET rerender(T) ==
            Log([T EXCEPT !.board.pieces = fullRerender(T.board.pieces, T.game)],
                "fullRerender", NoKey, NoKey, "")
    IN  setConfig(rerender(Log([S EXCEPT !.game = engineReset], "game.reset", NoKey, NoKey, "")),
                  S.props.boardConfig, FALSE, FALSE)

resetBoard(S) ==
    LET rerender(T) ==
            Log([T EXCEPT !.board.pieces = fullRerender(T.board.pieces, T.game)],
                "fullRerender", NoKey, NoKey, "")
    IN  setConfig(rerender(Log([S EXCEPT !.game = engineReset], "game.reset", NoKey, NoKey, "")),
                  S.props.boardConfig, TRUE, FALSE)

\* viewHistory returns at once
viewHistory(S, ply) == S

stopViewingHistory(S) ==
    IF S.viewer.isEnabled THEN viewHistory(S, getCurrentPlyNumber(S)) ELSE S

viewStart(S) == viewHistory(S, 0)

viewNext(S) ==
    IF S.viewer.isEnabled THEN viewHistory(S, S.viewer.plyViewing + 1) ELSE S

viewPrevious(S) ==
    LET ply == IF S.viewer.isEnabled THEN S.viewer.plyViewing ELSE getCurrentPlyNumber(S)
    IN  viewHistory(S, ply - 1)


(***************************************************************************)
(* Hooks and the scheduler.  The board calls the movable.events.after slot *)
(* from a timer after a gesture; a wrapper installed by setConfig awaits   *)
(* changeTurn and calls the wrapped function from the continuation.        *)
(***************************************************************************)
Task(k, fn, orig, dest) == [k |-> k, fn |-> fn, orig |-> orig, dest |-> dest]

\* whether a call of fn runs changeTurn, and so move
CallsMove(fn) == fn.kind = "fn" /\ (fn.wraps > 0 \/ fn.base = "changeTurn")

\* a call of the function fn with (orig, dest, metadata)
Invoke(S, fn, orig, dest, unchecked) ==
    IF fn.kind # "fn" THEN S
    ELSE IF fn.wraps > 0
         THEN [changeTurn(S, orig, dest, unchecked)
                 EXCEPT !.micro = Append(@, Task("cont", Fn(fn.wraps - 1, fn.base), orig, dest))]
         ELSE IF fn.base = "changeTurn"
              THEN changeTurn(S, orig, dest, unchecked)
              ELSE Log(S, "userAfter", orig, dest, fn.base)

\* callUserFunction(state.movable.events.after, orig, dest, metadata)
callUserFunction(S, orig, dest) ==
    IF Truthy(S.board.movable.after)
    THEN [S EXCEPT !.timers = Append(@, Task("after", S.board.movable.after, orig, dest))]
    ELSE S

\* board.playPremove()
playPremove(S) ==
    LET S1 == Log(S, "board.playPremove", NoKey, NoKey, "")
    IN  IF S1.board.premove = <<>> THEN S1
        ELSE LET orig == S1.board.premove[1]
                 dest == S1.board.premove[2]
                 S2 == IF canMove(S1.board, orig, dest)
                       THEN callUserFunction(
                              [S1 EXCEPT !.board = baseUserMove(S1.board, orig, dest)], orig, dest)
                       ELSE S1
             IN  [S2 EXCEPT !.board.premove = <<>>]

\* a gesture on the board: userMove(state, orig, dest)
userMove(S, orig, dest) ==
    IF canMove(S.board, orig, dest)
    THEN LET S1 == [S EXCEPT !.board = [baseUserMove(S.board, orig, dest) EXCEPT !.selected = NoKey]]
         IN  callUserFunction(Log(S1, "board.userMove", orig, dest, "move"), orig, dest)
    ELSE IF canPremove(S.board, orig, dest)
         THEN Log([S EXCEPT !.board.premove = <<orig, dest>>, !.board.selected = NoKey],
                  "board.userMove", orig, dest, "premove")
         ELSE Log([S EXCEPT !.board.selected = NoKey], "board.userMove", orig, dest, "none")

(***************************************************************************)
(* The specification: the host calls the API between scheduler turns, the  *)
(* scheduler runs what the calls left behind.                              *)
(***************************************************************************)
MoveKeys == {squareIndexToKey(i) : i \in Arena}

\* the config object the host keeps
HeldInit == Obj([movable |-> Obj([events |-> Obj([after |-> Fn(0, "user")])])])

\* config literals the host passes to setConfig
Literal(name) ==
    CASE name = "empty" -> EmptyObj
      [] name = "free" -> Obj([movable |-> Obj([free |-> Prim("true")])])
      [] name = "unset" -> Obj([movable |-> Obj([events |-> Obj([after |-> Undef])])])
      [] name = "fen" -> Obj([fen |-> Fen(altPos)])

Call(op, orig, dest, flag, cfg, legal, over, ret) ==
    [op |-> op, orig |-> orig, dest |-> dest, flag |-> flag, cfg |-> cfg,
     legal |-> legal, over |-> over, ret |-> ret, idx |-> 0, out |-> 0]

Set(S) ==
    /\ game' = S.game
    /\ board' = S.board
    /\ viewer' = S.viewer
    /\ props' = S.props
    /\ held' = S.held
    /\ template' = S.template
    /\ micro' = S.micro
    /\ timers' = S.timers
    /\ trace' = S.trace
    /\ edits' = S.edits

\* a fresh operation starts with an empty trace
Start == [St EXCEPT !.trace = <<>>]

Idle == micro = <<>> /\ timers = <<>>

\* new BoardApi(...) with the props of the host
ConstructedWith(playerColor, boardConfig) ==
    resetBoard([game |-> EngineInit, board |-> BoardNew, viewer |-> Live,
                props |-> [boardConfig |-> boardConfig, playerColor |-> playerColor],
                held |-> HeldInit, template |-> Owned(defaultBoardConfig, "defaultBoardConfig"),
                micro |-> <<>>, timers |-> <<>>, trace |-> <<>>,
                edits |-> 0, ret |-> "void"])

Constructed(playerColor) == ConstructedWith(playerColor, EmptyObj)

\* the boardConfig prop of a host: none, or one with a start position of its own
HostConfigs == {EmptyObj, Obj([fen |-> Fen(altPos)])}

InitHost ==
    \E playerColor \in {"undefined"}, boardConfig \in HostConfigs :
        \E S \in {ConstructedWith(playerColor, boardConfig)} :
            /\ game = S.game
            /\ board = S.board
            /\ viewer = S.viewer
            /\ props = S.props
            /\ held = S.held
            /\ template = S.template
            /\ micro = S.micro
            /\ timers = S.timers
            /\ trace = S.trace
            /\ edits = S.edits
            /\ call = Call("constructor", NoKey, NoKey, FALSE, "", FALSE, FALSE, "void")

Init ==
    \E playerColor \in {"undefined", "white"} :
        \E S \in {Constructed(playerColor)} :
            /\ game = S.game
            /\ board = S.board
            /\ viewer = S.viewer
            /\ props = S.props
            /\ held = S.held
            /\ template = S.template
            /\ micro = S.micro
            /\ timers = S.timers
            /\ trace = S.trace
            /\ edits = S.edits
            /\ call = Call("constructor", NoKey, NoKey, FALSE, "", FALSE, FALSE, "void")

Move ==
    /\ Idle
    /\ \E from \in MoveKeys, to \in MoveKeys, emitEvent \in BOOLEAN, unchecked \in BOOLEAN :
          /\ unchecked => ~isMoveLegal(St, from, to)
          /\ ~emitEvent => isMoveLegal(St, from, to)
          /\ \E S \in {move(Start, TRUE, from, to, emitEvent, unchecked)} :
                 /\ Set(S)
                 /\ call' = Call("move", from, to, emitEvent, "", isMoveLegal(St, from, to),
                                 isGameOver(game), S.ret)

MoveNotation ==
    /\ Idle
    /\ \E S \in {move(Start, FALSE, NoKey, NoKey, TRUE, FALSE)} :
           /\ Set(S)
           /\ call' = Call("move.notation", NoKey, NoKey, TRUE, "", FALSE, isGameOver(game), S.ret)

SetPosition ==
    /\ Idle
    /\ \E name \in {"initialPos", "altPos"} :
          \E S \in {setPosition(Start, IF name = "initialPos" THEN Fen(initialPos)
                                         ELSE Fen(altPos))} :
              /\ Set(S)
              /\ call' = Call("setPosition", NoKey, NoKey, FALSE, name, FALSE, isGameOver(game), "void")

SetConfigLiteral ==
    /\ Idle
    /\ \E name \in {"empty", "free", "fen"}, fillDefaults \in BOOLEAN :
          \E S \in {setConfig(Start, Literal(name), fillDefaults, FALSE)} :
              /\ Set(S)
              /\ call' = Call("setConfig", board.selected, NoKey, fillDefaults, name, FALSE,
                              isGameOver(game), "void")

SetConfigUnset ==
    /\ Idle
    /\ \E fillDefaults \in BOOLEAN :
          \E S \in {setConfig(Start, Literal("unset"), fillDefaults, FALSE)} :
              /\ Set(S)
              /\ call' = Call("setConfig", board.selected, NoKey, fillDefaults, "unset", FALSE,
                              isGameOver(game), "void")

SetConfigHeld ==
    /\ Idle
    /\ \E fillDefaults \in BOOLEAN :
          /\ Get(Get(Get(held, "movable"), "events"), "after").wraps < MaxWraps
          /\ \E S \in {setConfig(Start, held, fillDefaults, TRUE)} :
                 /\ Set(S)
                 /\ call' = Call("setConfig", board.selected, NoKey, fillDefaults, "held", FALSE,
                                 isGameOver(game), "void")

ResetBoard ==
    /\ Idle
    /\ \E S \in {resetBoard(Start)} :
           /\ Set(S)
           /\ call' = Call("resetBoard", board.selected, NoKey,
                           board.movable.color = "undefined", "", FALSE, isGameOver(game), "void")

PutPiece ==
    /\ Idle
    /\ edits < MaxEdits
    /\ Len(game.pieces) < MaxPieces
    /\ \E squareIndex \in {1} :
          \E S \in {putPiece([Start EXCEPT !.edits = @ + 1], "P1_PAWN", squareIndex, PAWN_HP)} :
              /\ Set(S)
              /\ call' = Call("putPiece", squareIndexToKey(squareIndex), NoKey, FALSE, "", FALSE,
                              isGameOver(game), S.ret)

SetCurrentPlayer ==
    /\ Idle
    /\ edits < MaxEdits
    /\ \E player \in {PLAYER_2} :
          \E S \in {setCurrentPlayer([Start EXCEPT !.edits = @ + 1], player)} :
              /\ Set(S)
              /\ call' = Call("setCurrentPlayer", NoKey, NoKey, player = PLAYER_2, "", FALSE,
                              isGameOver(game), "void")

ViewHistory ==
    /\ Idle
    /\ \E ply \in 0..MaxPlies :
          \E S \in {viewHistory(Start, ply)} :
              /\ Set(S)
              /\ call' = [Call("viewHistory", NoKey, NoKey, FALSE, "", FALSE,
                               isGameOver(game), "void") EXCEPT !.idx = ply]

ViewStep ==
    /\ Idle
    /\ \E op \in {"stopViewingHistory", "viewStart", "viewNext", "viewPrevious"} :
          \E S \in {CASE op = "stopViewingHistory" -> stopViewingHistory(Start)
                       [] op = "viewStart" -> viewStart(Start)
                       [] op = "viewNext" -> viewNext(Start)
                       [] op = "viewPrevious" -> viewPrevious(Start)} :
              /\ Set(S)
              /\ call' = Call(op, NoKey, NoKey, FALSE, "", FALSE, isGameOver(game), "void")

UserMove ==
    /\ Idle
    /\ \E orig \in MoveKeys, dest \in MoveKeys :
          /\ canMove(board, orig, dest) \/ canPremove(board, orig, dest)
          /\ \E S \in {userMove(Start, orig, dest)} :
                 /\ Set(S)
                 /\ call' = Call("userMove", orig, dest, canMove(board, orig, dest), "",
                                 isMoveLegal(St, orig, dest), isGameOver(game), "void")

ForbidMoves ==
    /\ Idle
    /\ board.movable.color # "undefined"
    /\ Set(forbidMoves(Start))
    /\ call' = Call("forbidMoves", NoKey, NoKey, FALSE, "", FALSE, isGameOver(game), "void")

\* the squares the host asks about: those of the game and a far corner
QueryKeys == MoveKeys \cup {K("h", "8")}

IsMoveLegal ==
    /\ Idle
    /\ \E from \in QueryKeys, to \in QueryKeys :
          \E S \in {isMoveLegalCall(Start, from, to)} :
              /\ Set(S)
              /\ call' = Call("isMoveLegal", from, to, FALSE, "", S.ret = "true",
                              isGameOver(game), S.ret)

GetPossibleMoves ==
    /\ Idle
    /\ Set(Start)
    /\ call' = [Call("getPossibleMoves", NoKey, NoKey, FALSE, "", FALSE, isGameOver(game), "map")
                  EXCEPT !.out = getPossibleMoves(St)]

\* a gesture on the board: the player selects a piece
SelectSquare ==
    /\ Idle
    /\ \E key \in MoveKeys :
          /\ key \in DOMAIN board.pieces
          /\ key # board.selected
          /\ Set([Start EXCEPT !.board.selected = key])
          /\ call' = Call("select", key, NoKey, FALSE, "", FALSE, isGameOver(game), "void")

\* the scheduler runs the next microtask, and a timer when no microtask waits
RunMicrotask ==
    /\ micro # <<>>
    /\ \E unchecked \in BOOLEAN, t \in {Head(micro)}, S0 \in {[Start EXCEPT !.micro = Tail(micro)]} :
          /\ unchecked => (t.k = "cont" /\ CallsMove(t.fn) /\ ~isMoveLegal(St, t.orig, t.dest))
          /\ \E S \in {IF t.k = "playPremove" THEN playPremove(S0)
                       ELSE Invoke(S0, t.fn, t.orig, t.dest, unchecked)} :
              /\ Set(S)
              /\ call' = Call("microtask", t.orig, t.dest, FALSE, t.k,
                              t.k = "cont" /\ isMoveLegal(St, t.orig, t.dest),
                              isGameOver(game), "void")

RunTimer ==
    /\ micro = <<>>
    /\ timers # <<>>
    /\ \E unchecked \in BOOLEAN, t \in {Head(timers)} :
          /\ unchecked => (CallsMove(t.fn) /\ ~isMoveLegal(St, t.orig, t.dest))
          /\ \E S \in {Invoke([Start EXCEPT !.timers = Tail(timers)],
                              t.fn, t.orig, t.dest, unchecked)} :
              /\ Set(S)
              /\ call' = Call("timer", t.orig, t.dest, FALSE, t.k, isMoveLegal(St, t.orig, t.dest),
                              isGameOver(game), "void")

\* the host drives the game through the API
Next ==
    \/ Move
    \/ MoveNotation
    \/ SetPosition
    \/ SetConfigLiteral
    \/ ResetBoard
    \/ PutPiece
    \/ SetCurrentPlayer
    \/ RunMicrotask

Spec == Init /\ [][Next]_vars

\* the host plays moves and steps through the history
NextView ==
    \/ Move
    \/ ViewHistory
    \/ ViewStep
    \/ SetPosition
    \/ RunMicrotask

SpecView == Init /\ [][NextView]_vars

\* the host registers hooks, the players move pieces on the board
NextHooks ==
    \/ SetConfigHeld
    \/ SetConfigUnset
    \/ UserMove
    \/ Move
    \/ RunMicrotask
    \/ RunTimer

SpecHooks == Init /\ [][NextHooks]_vars

\* the host configures the board while a game is played on it
NextSetConfig ==
    \/ SetConfigLiteral
    \/ SetConfigUnset
    \/ SelectSquare

SpecSetConfig == Init /\ [][NextSetConfig]_vars

\* the host asks which moves are legal while a game is played
NextQueries ==
    \/ IsMoveLegal
    \/ GetPossibleMoves
    \/ Move
    \/ RunMicrotask

SpecQueries == Init /\ [][NextQueries]_vars

\* the host resets a board on which a game was played, edited and configured
NextReset ==
    \/ ResetBoard
    \/ Move
    \/ PutPiece
    \/ ForbidMoves
    \/ SelectSquare
    \/ RunMicrotask

SpecReset == InitHost /\ [][NextReset]_vars

(***************************************************************************)
(* Properties of the host API (Spec, SpecView).                            *)
(***************************************************************************)
\* how many times the operation in progress did the step called name
Times(tr, name) == Cardinality({i \in 1..Len(tr) : tr[i].ev = name})

\* the events the operation in progress emitted to the host
Emitted(tr) ==
    SelectSeq(tr, LAMBDA e : e.ev \in {"emit.move", "emit.draw", "emit.checkmate"})

\* the live pieces of the engine, by the key of their square
EnginePieces(g) ==
    LET live == {k \in 1..Len(g.pieces) : Alive(g.pieces[k])}
        keys == {squareIndexToKey(g.pieces[k].squareIndex) : k \in live}
    IN  [key \in keys |->
            PieceView(g.pieces[CHOOSE k \in live :
                                  squareIndexToKey(g.pieces[k].squareIndex) = key])]

EngineColor(g) == IF g.player = PLAYER_1 THEN "white" ELSE "black"

\* C1: for every origin/destination pair outside the engine's legal actions,
\* move({from, to}) returns false, leaves the engine snapshot, the piece
\* projection, the turn color and the legal-destination map unchanged and
\* emits no event.
C1_IllegalMoveRejected ==
    [][(call'.op = "move" /\ ~call'.legal) =>
          /\ call'.ret = "false"
          /\ boardToString(game') = boardToString(game)
          /\ board'.pieces = board.pieces
          /\ board'.turnColor = board.turnColor
          /\ board'.movable.dests = board.movable.dests
          /\ Emitted(trace') = <<>>]_vars

\* C2: once the game is over, every move() returns false and leaves the engine
\* snapshot unchanged, until setPosition or resetBoard replaces the position.
C2_NoMoveAfterGameOver ==
    [][(call'.op = "move" /\ isGameOver(game)) =>
          /\ call'.ret = "false"
          /\ boardToString(game') = boardToString(game)]_vars

\* what C3 says of a legal move, but for movable.dests
LegalMoveApplied ==
    /\ call'.ret = "true"
    /\ game' = makeAction(game, keyToSquareIndex(call'.orig), keyToSquareIndex(call'.dest), FALSE)
    /\ game'.player = 1 - game.player
    /\ call'.flag => Times(trace', "emit.move") = 1
    /\ board'.turnColor = EngineColor(game')
    /\ board'.pieces = EnginePieces(game')
    /\ LiveAt(game', keyToSquareIndex(call'.dest)) # {}
    /\ call'.orig \notin DOMAIN board'.pieces

C5_ViewHistoryDrives ==
    call.op = "viewHistory" =>
        /\ call.idx < game.ply => viewer = Viewing(call.idx)
        /\ call.idx = game.ply => viewer = Live

\* C9: after every public operation that can change the engine, in Live mode
\* with movable.free false, the board's pieces, turn color and movable.dests
\* are those of the engine.
C9_ViewsConsistent ==
    (/\ call.op \in {"move", "setPosition", "setConfig", "resetBoard", "putPiece",
                     "setCurrentPlayer"}
     /\ ~viewer.isEnabled
     /\ ~board.movable.free) =>
        /\ board.pieces = EnginePieces(game)
        /\ board.turnColor = EngineColor(game)
        /\ board.movable.dests = possibleMoves(game)

(***************************************************************************)
(* Properties of the hooks and the scheduler (SpecHooks).                  *)
(***************************************************************************)
\* where the operation in progress first did the step called name
First(tr, name) == CHOOSE i \in 1..Len(tr) : tr[i].ev = name /\ \A j \in 1..(i - 1) : tr[j].ev # name

PremoveTasks(q) == Cardinality({i \in 1..Len(q) : q[i].k = "playPremove"})

HeldAfter == Get(Get(Get(held, "movable"), "events"), "after")

\* C6: however often setConfig was called, and with the same config object or
\* another, a move on the board runs changeTurn exactly once: the hook the
\* board calls runs it once and the continuation of the hook never runs it.
C6_ChangeTurnOncePerMove ==
    /\ call.op = "timer" => Times(trace, "changeTurn") = 1
    /\ (call.op = "microtask" /\ call.cfg = "cont") => Times(trace, "changeTurn") = 0

\* C7: the callback setConfig installs for a config that carries the 'after'
\* slot runs changeTurn first and to its end, and only then, in its
\* continuation, calls the function the caller supplied, with the arguments
\* the board gave; for a slot supplied unset it installs changeTurn alone; the
\* slot is never left empty.
C7_InternalHandlerFirst ==
    [][/\ (call'.op = "setConfig" /\ call'.cfg = "held") =>
              board'.movable.after = Fn(HeldAfter.wraps + 1, HeldAfter.base)
       /\ (call'.op = "setConfig" /\ call'.cfg = "unset") =>
              board'.movable.after = Fn(0, "changeTurn")
       /\ call'.op = "setConfig" => Truthy(board'.movable.after)
       /\ call'.op = "timer" =>
              LET t == Head(timers)
              IN  /\ trace'[1] = Ev("changeTurn", t.orig, t.dest, "")
                  /\ trace'[Len(trace')] = Ev("changeTurn.done", t.orig, t.dest, "")
                  /\ Times(trace', "userAfter") = 0
                  /\ IF t.fn.wraps > 0
                     THEN micro'[Len(micro')] =
                              Task("cont", Fn(t.fn.wraps - 1, t.fn.base), t.orig, t.dest)
                     ELSE /\ t.fn.base = "changeTurn"
                          /\ \A i \in 1..Len(micro') : micro'[i].k # "cont"
       /\ (call'.op = "microtask" /\ call'.cfg = "cont") =>
              LET t == Head(micro)
              IN  IF t.fn.wraps > 0
                  THEN /\ trace'[1] = Ev("changeTurn", t.orig, t.dest, "")
                       /\ Times(trace', "userAfter") = 0
                  ELSE trace' = <<Ev("userAfter", t.orig, t.dest, t.fn.base)>>]_vars

\* C7 witness: the continuation of an installed callback called the caller's
\* function, a scheduler turn after the board called the callback
C7_Witness ==
    /\ call.op = "microtask"
    /\ call.cfg = "cont"
    /\ trace = <<Ev("userAfter", call.orig, call.dest, "user")>>
    /\ game.ply > 0

\* C8: move() does not play the premove: it schedules exactly one premove
\* continuation, after the re-render and the recomputation of turn and
\* destinations; when the move ended the game, input is disabled on return;
\* the continuation runs in a later scheduler turn, which is the next one
\* after a move() of the host.
C8_PremoveDeferred ==
    [][/\ call'.op = "move" =>
              /\ call'.ret = "true"
              /\ board'.premove = board.premove
              /\ Times(trace', "board.playPremove") = 0
              /\ Times(trace', "nextTick") = 1
              /\ First(trace', "fullRerender") < First(trace', "updateGameState")
              /\ First(trace', "updateGameState") < First(trace', "nextTick")
              /\ micro' = <<Task("playPremove", Undef, NoKey, NoKey)>>
              /\ isGameOver(game') => board'.movable.color = "undefined"
       /\ (call'.op = "timer" \/ (call'.op = "microtask" /\ call'.cfg = "cont")) =>
              /\ board'.premove = board.premove
              /\ Times(trace', "board.playPremove") = 0
              /\ Times(trace', "nextTick") = Times(trace', "game.makeAction")
              /\ PremoveTasks(micro') = PremoveTasks(micro) + Times(trace', "game.makeAction")
       /\ (call'.op = "microtask" /\ call'.cfg = "playPremove") =>
              /\ trace'[1].ev = "board.playPremove"
              /\ Times(trace', "game.makeAction") = 0
              /\ PremoveTasks(micro') = PremoveTasks(micro) - 1
              /\ board'.premove = <<>>]_vars

\* C8 witness: a premove the player had set was played by the continuation, a
\* scheduler turn after the move() that answered the player's last move
C8_Witness ==
    /\ call.op = "microtask"
    /\ call.cfg = "playPremove"
    /\ timers # <<>>
    /\ board.premove = <<>>

(***************************************************************************)
(* The coordinate functions on their own: the state holds an input (an     *)
(* index or a key, on the board or just off it), the actions apply the     *)
(* functions to it, one after the other.  call.idx is the index given,     *)
(* call.orig the key given or computed, call.out the index computed and    *)
(* call.dest the key computed from it.                                     *)
(***************************************************************************)
CoordIndices == (0 - 1)..NUM_SQUARES

CoordKeys == {<<f, r>> : f \in {"a", "b", "c", "d", "e", "f", "g", "h", "i"},
                         r \in {"0", "1", "2", "3", "4", "5", "6", "7", "8", "9"}}

Coord(op, idx, orig, out, dest) ==
    [Call(op, orig, dest, FALSE, "", FALSE, FALSE, "void") EXCEPT !.idx = idx, !.out = out]

InitCoord ==
    /\ \E S \in {Constructed("undefined")} :
           /\ game = S.game
           /\ board = S.board
           /\ viewer = S.viewer
           /\ props = S.props
           /\ held = S.held
           /\ template = S.template
           /\ micro = S.micro
           /\ timers = S.timers
           /\ trace = S.trace
           /\ edits = S.edits
    /\ \/ \E i \in CoordIndices : call = Coord("index", i, NoKey, 0, NoKey)
       \/ \E k \in CoordKeys : call = Coord("key", 0, k, 0, NoKey)

Program == <<game, board, viewer, props, held, template, micro, timers, trace, edits>>

IndexToKey ==
    /\ call.op = "index"
    /\ call' = Coord("squareIndexToKey", call.idx, squareIndexToKey(call.idx), 0, NoKey)
    /\ UNCHANGED Program

KeyToIndex ==
    /\ call.op = "key"
    /\ call' = Coord("keyToSquareIndex", 0, call.orig, keyToSquareIndex(call.orig), NoKey)
    /\ UNCHANGED Program

\* keyToSquareIndex(squareIndexToKey(i))
IndexRoundTrip ==
    /\ call.op = "squareIndexToKey"
    /\ call' = Coord("indexRoundTrip", call.idx, call.orig, keyToSquareIndex(call.orig), NoKey)
    /\ UNCHANGED Program

\* squareIndexToKey(keyToSquareIndex(k)), for the indices squareIndexToKey takes
KeyRoundTrip ==
    /\ call.op = "keyToSquareIndex"
    /\ call.out \in (0 - NUM_ROWS)..(2 * NUM_SQUARES)
    /\ call' = Coord("keyRoundTrip", 0, call.orig, call.out, squareIndexToKey(call.out))
    /\ UNCHANGED Program

NextCoord == IndexToKey \/ KeyToIndex \/ IndexRoundTrip \/ KeyRoundTrip

SpecCoord == InitCoord /\ [][NextCoord]_vars

\* the keys of the board: a file a..h and a rank 1..8
BoardKeys == {<<f, r>> : f \in {"a", "b", "c", "d", "e", "f", "g", "h"},
                         r \in {"1", "2", "3", "4", "5", "6", "7", "8"}}

\* C10: squareIndexToKey and keyToSquareIndex are mutual inverses over the board:
\* for every index i in 0..NUM_SQUARES-1, keyToSquareIndex(squareIndexToKey(i)) = i,
\* and for every key k of the board, squareIndexToKey(keyToSquareIndex(k)) = k.
C10_MutualInverses ==
    /\ (call.op = "indexRoundTrip" /\ call.idx \in Indices) => call.out = call.idx
    /\ (call.op = "keyRoundTrip" /\ call.orig \in BoardKeys) => call.dest = call.orig

\* C10 witness: both round trips have been made, here the one of the key h8
C10_Witness ==
    /\ call.op = "keyRoundTrip"
    /\ call.orig = <<"h", "8">>
    /\ call.out = NUM_SQUARES - 1
    /\ call.dest = <<"h", "8">>

\* C11: a key outside the board given to keyToSquareIndex, or an index outside
\* 0..NUM_SQUARES-1 given to squareIndexToKey, is answered with an error: the
\* functions, which have no other way to answer than their result, never give
\* back the index or the key of a square of the board.
C11_InvalidCoordinateSignalled ==
    /\ (call.op = "keyToSquareIndex" /\ call.orig \notin BoardKeys) => call.out \notin Indices
    /\ (call.op = "squareIndexToKey" /\ call.idx \notin Indices) => call.orig \notin BoardKeys

(***************************************************************************)
(* The config helpers on their own: the state holds two config trees, the  *)
(* actions apply deepMergeConfig and deepDiffConfig to them and to each    *)
(* other's results.  call.cfg holds the two trees given and call.out the   *)
(* tree computed.  The trees given to deepMergeConfig are objects that     *)
(* exist before the call: target's are owned by "target", source's by      *)
(* "source".                                                               *)
(***************************************************************************)
\* a key a config does not have
Absent == [kind |-> "absent"]

\* the object with the keys of f that f does not map to Absent
ObjOf(f) == Obj([key \in {k \in DOMAIN f : f[k] # Absent} |-> f[key]])

\* leaves of a config: unset, numbers, a hook, an array
ConfigLeaves == {Undef, Prim("300"), Prim("500"), Fn(0, "user"), ArrRef(1)}

\* what a config may hold under animation.duration, animation and viewOnly
DurationOptions == ConfigLeaves \cup {Absent, EmptyObj, Obj([ms |-> Prim("300")])}

AnimationOptions ==
    ConfigLeaves \cup {Absent}
        \cup {ObjOf([enabled |-> e, duration |-> d]) :
                  e \in {Absent, Prim("true")}, d \in DurationOptions}

ViewOnlyOptions == {Absent, Undef, Prim("true"), Prim("false")}

\* a config of a host that sets the destinations itself
HostDests == Obj([movable |-> Obj([dests |-> MapOf(K("a", "1") :> <<K("a", "2")>>)])])

\* the configs given: small trees, the default template and the host's config
\* with its own destinations
Configs ==
    {ObjOf([viewOnly |-> v, animation |-> a]) : v \in ViewOnlyOptions, a \in AnimationOptions}
        \cup {defaultBoardConfig, HostDests}

Conf(op, target, source, result) ==
    [Call(op, NoKey, NoKey, FALSE, "", FALSE, FALSE, "void")
        EXCEPT !.cfg = [target |-> target, source |-> source], !.out = result]

InitConfig ==
    /\ \E S \in {Constructed("undefined")} :
           /\ game = S.game
           /\ board = S.board
           /\ viewer = S.viewer
           /\ props = S.props
           /\ held = S.held
           /\ template = S.template
           /\ micro = S.micro
           /\ timers = S.timers
           /\ trace = S.trace
           /\ edits = S.edits
    /\ \E target \in Configs, source \in Configs : call = Conf("configs", target, source, Undef)

\* deepMergeConfig(target, source)
DeepMergeConfig ==
    /\ call.op = "configs"
    /\ call' = Conf("deepMergeConfig", call.cfg.target, call.cfg.source,
                    deepMergeConfig(Owned(call.cfg.target, "target"),
                                    Owned(call.cfg.source, "source")))
    /\ UNCHANGED Program

\* deepDiffConfig(oldConfig, newConfig), with target the old and source the new
DeepDiffConfig ==
    /\ call.op = "configs"
    /\ call' = Conf("deepDiffConfig", call.cfg.target, call.cfg.source,
                    deepDiffConfig(call.cfg.target, call.cfg.source))
    /\ UNCHANGED Program

\* deepMergeConfig(oldConfig, deepDiffConfig(oldConfig, newConfig))
MergeOfDiff ==
    /\ call.op = "deepDiffConfig"
    /\ call' = Conf("mergeOfDiff", call.cfg.target, call.cfg.source,
                    deepMergeConfig(call.cfg.target, call.out))
    /\ UNCHANGED Program

\* deepDiffConfig(A, deepMergeConfig(A, B))
DiffOfMerge ==
    /\ call.op = "deepMergeConfig"
    /\ call' = Conf("diffOfMerge", call.cfg.target, call.cfg.source,
                    deepDiffConfig(call.cfg.target, call.out))
    /\ UNCHANGED Program

NextConfig == DeepMergeConfig \/ DeepDiffConfig \/ MergeOfDiff \/ DiffOfMerge

SpecConfig == InitConfig /\ [][NextConfig]_vars

(***************************************************************************)
(* Properties of the config helpers (SpecConfig).                          *)
(***************************************************************************)
\* the tree value without the owners of its objects: its structure
RECURSIVE Unowned(_)
Unowned(value) ==
    IF value.kind = "obj"
    THEN Obj([key \in DOMAIN value.fields |-> Unowned(value.fields[key])])
    ELSE value

\* the owners of the objects in the tree value
RECURSIVE Owners(_)
Owners(value) ==
    IF value.kind = "obj"
    THEN ({OwnerOf(value)} \ {""}) \cup UNION {Owners(value.fields[key]) : key \in DOMAIN value.fields}
    ELSE {}

\* a node of a config tree that is a plain object; every other value is a leaf
IsPlain(value) == value.kind = "obj"

\* a well-formed config tree: every leaf is unset, a primitive, a hook or an
\* array; a keyed collection (a Map) is none of these
RECURSIVE WellFormed(_)
WellFormed(value) ==
    IF IsPlain(value)
    THEN \A key \in DOMAIN value.fields : WellFormed(value.fields[key])
    ELSE value.kind \in {"undef", "prim", "fen", "fn", "arr"}

\* both configs given are well-formed trees
WellFormedConfigs == WellFormed(call.cfg.target) /\ WellFormed(call.cfg.source)

\* C12: for every well-formed config tree T, and for the default template
\* (whose movable.dests is a Map), deepMergeConfig(T, {}) has the structure of
\* T at every path and none of its objects is an object of T.
C12_MergeIdentity ==
    (/\ call.op = "deepMergeConfig"
     /\ call.cfg.source = EmptyObj
     /\ (WellFormed(call.cfg.target) \/ call.cfg.target = defaultBoardConfig)) =>
        /\ Unowned(call.out) = call.cfg.target
        /\ Owners(call.out) = {}

\* value holds what newConfig holds, at every path whose keys newConfig has
RECURSIVE EqualOnKeysOf(_, _)
EqualOnKeysOf(value, newConfig) ==
    \A key \in OwnKeys(newConfig) :
        IF IsPlain(Get(newConfig, key))
        THEN IsPlain(Get(value, key)) /\ EqualOnKeysOf(Get(value, key), Get(newConfig, key))
        ELSE Get(value, key) = Get(newConfig, key)

\* C14: for all well-formed configs oldConfig and newConfig,
\* deepMergeConfig(oldConfig, deepDiffConfig(oldConfig, newConfig)) equals
\* newConfig at every path whose keys are present in newConfig.
C14_MergeOfDiffReproduces ==
    (call.op = "mergeOfDiff" /\ WellFormedConfigs) =>
        EqualOnKeysOf(call.out, call.cfg.source)

\* the two configs of the example: they differ in viewOnly and animation.duration
ExampleOld ==
    Obj([viewOnly |-> Prim("false"),
         animation |-> Obj([enabled |-> Prim("true"), duration |-> Prim("300")])])

ExampleNew ==
    Obj([viewOnly |-> Prim("true"),
         animation |-> Obj([enabled |-> Prim("true"), duration |-> Prim("500")])])

\* C14 witness: the merge of the diff of the two configs of the example is the
\* new config
C14_Witness ==
    /\ call.op = "mergeOfDiff"
    /\ call.cfg.target = ExampleOld
    /\ call.cfg.source = ExampleNew
    /\ call.out = ExampleNew

\* newConfig holds, under some key or path, a value that is not oldConfig's
RECURSIVE Differs(_, _)
Differs(oldConfig, newConfig) ==
    \E key \in OwnKeys(newConfig) :
        IF IsPlain(Get(oldConfig, key)) /\ IsPlain(Get(newConfig, key))
        THEN Differs(Get(oldConfig, key), Get(newConfig, key))
        ELSE Get(oldConfig, key) # Get(newConfig, key)

\* diff holds the keys of newConfig whose value differs and no other: a leaf
\* whole, an object both hold by its own diff
RECURSIVE IsMinimalDiff(_, _, _)
IsMinimalDiff(diff, oldConfig, newConfig) ==
    /\ OwnKeys(diff) \subseteq OwnKeys(newConfig)
    /\ \A key \in OwnKeys(newConfig) :
          IF IsPlain(Get(oldConfig, key)) /\ IsPlain(Get(newConfig, key))
          THEN IF Differs(Get(oldConfig, key), Get(newConfig, key))
               THEN /\ key \in OwnKeys(diff)
                    /\ IsMinimalDiff(Get(diff, key), Get(oldConfig, key), Get(newConfig, key))
               ELSE key \notin OwnKeys(diff)
          ELSE IF Get(oldConfig, key) # Get(newConfig, key)
               THEN key \in OwnKeys(diff) /\ Get(diff, key) = Get(newConfig, key)
               ELSE key \notin OwnKeys(diff)

RECURSIVE Restricted(_, _)
Restricted(diff, B) ==
    Obj([key \in OwnKeys(diff) \cap OwnKeys(B) |->
           IF IsPlain(Get(diff, key)) /\ IsPlain(Get(B, key))
           THEN Restricted(Get(diff, key), Get(B, key))
           ELSE Get(diff, key)])

\* C16: for all well-formed configs A and B, deepDiffConfig(A,
\* deepMergeConfig(A, B)) restricted to the keys of B at every level has the
\* structure of deepDiffConfig(A, B).
C16_DiffOfMergeRoundTrip ==
    (call.op = "diffOfMerge" /\ WellFormedConfigs) =>
        Unowned(Restricted(call.out, call.cfg.source))
            = Unowned(deepDiffConfig(call.cfg.target, call.cfg.source))

\* C16 witness: B brings an object where A holds a leaf, a leaf where A holds
\* an object's key, and the diff of the merge is B's part
C16_Witness ==
    /\ call.op = "diffOfMerge"
    /\ call.cfg.target = Obj([viewOnly |-> Prim("false"), animation |-> Prim("300")])
    /\ call.cfg.source = Obj([animation |-> Obj([duration |-> Obj([ms |-> Prim("300")])])])
    /\ call.out = call.cfg.source

\* result holds source's value under every key of source, but where both
\* hold an object, which is looked into
RECURSIVE HoldsSource(_, _, _)
HoldsSource(result, target, source) ==
    \A key \in OwnKeys(source) :
        /\ key \in OwnKeys(result)
        /\ IF IsPlain(Get(target, key)) /\ IsPlain(Get(source, key))
           THEN HoldsSource(Get(result, key), Get(target, key), Get(source, key))
           ELSE Unowned(Get(result, key)) = Unowned(Get(source, key))

AfterOf(config) == Get(Get(Get(config, "movable"), "events"), "after")

\* C13: deepMergeConfig never mutates its target: the default template is
\* the object DefaultConfig.ts built, unchanged, before and after every
\* sequence of setConfig(_, true) and resetBoard calls, although setConfig
\* writes its patched after hook into the merged config.
C13_TemplateNeverMutated ==
    template = Owned(defaultBoardConfig, "defaultBoardConfig")

\* C13 witness: after a setConfig that filled the defaults in, the board holds
\* the patched copy of the template's after hook and the template its own
C13_Witness ==
    /\ call.op = "setConfig"
    /\ call.flag
    /\ call.cfg = "free"
    /\ board.movable.after = patchAfter(AfterOf(defaultBoardConfig))
    /\ AfterOf(template) = AfterOf(defaultBoardConfig)
    /\ AfterOf(template) # board.movable.after

\* the config a setConfig handed to the board: what its board.set step carried
Handed(tr) == tr[First(tr, "board.set")].arg

\* a config with its after slot patched, when it has one
Patched(config) ==
    IF HasKey(Get(Get(config, "movable"), "events"), "after")
    THEN WithAfter(config, patchAfter(AfterOf(config)))
    ELSE config

\* the settings of the board that a config without them leaves alone
Untouched(partial, b) ==
    [pieces |-> b.pieces,
     turnColor |-> b.turnColor,
     color |-> b.movable.color,
     dests |-> b.movable.dests,
     free |-> IF HasKey(Get(partial, "movable"), "free") THEN "set" ELSE b.movable.free,
     after |-> IF HasKey(Get(Get(partial, "movable"), "events"), "after")
               THEN "set" ELSE b.movable.after]

\* C18: setConfig(partial, fillDefaults). With fillDefaults true the config
\* handed to the board is deepMergeConfig(defaultTemplate, partial) without
\* its fen and with its after slot patched, and the selection is cleared; with
\* fillDefaults false it is partial without its fen (after slot patched when
\* present), the selection is left as it was, and when partial has no fen
\* every setting partial does not specify keeps its value.
C18_HandedConfig ==
    [][call'.op = "setConfig" =>
          IF call'.flag
          THEN /\ Handed(trace') =
                      WithoutKey(Patched(deepMergeConfig(template, Literal(call'.cfg))), "fen")
               /\ board'.selected = NoKey
          ELSE /\ Handed(trace') = WithoutKey(Patched(Literal(call'.cfg)), "fen")
               /\ board'.selected = board.selected
               /\ ~HasKey(Literal(call'.cfg), "fen") =>
                      /\ Untouched(Literal(call'.cfg), board') =
                             Untouched(Literal(call'.cfg), board)
                      /\ game' = game]_vars

\* C18 as stated: the handed config is the merge itself (fillDefaults true) or
\* partial itself (false), and with false every unspecified setting keeps its
\* value.
C18_AsStated ==
    [][call'.op = "setConfig" =>
          IF call'.flag
          THEN /\ Handed(trace') = deepMergeConfig(template, Literal(call'.cfg))
               /\ board'.selected = NoKey
          ELSE /\ Handed(trace') = Literal(call'.cfg)
               /\ board'.selected = board.selected
               /\ Untouched(Literal(call'.cfg), board') =
                      Untouched(Literal(call'.cfg), board)]_vars

\* C18 witness: a square was selected when setConfig({movable: {free: true}},
\* true) was called; the selection is gone, and the board was handed the
\* template's settings with the caller's movable.free, no fen, and the patched
\* after hook
C18_Witness ==
    /\ call.op = "setConfig"
    /\ call.flag
    /\ call.cfg = "free"
    /\ call.orig # NoKey
    /\ board.selected = NoKey
    /\ Get(Get(Handed(trace), "movable"), "free") = Prim("true")
    /\ Get(Handed(trace), "orientation") = Get(defaultBoardConfig, "orientation")
    /\ ~HasKey(Handed(trace), "fen")
    /\ AfterOf(Handed(trace)) = patchAfter(AfterOf(defaultBoardConfig))

\* C19: a config that omits fen leaves the engine as it is, whatever
\* fillDefaults is: the position and the player to move are those of before
\* the call.
C19_NoFenKeepsEngine ==
    [][(call'.op = "setConfig" /\ ~HasKey(Literal(call'.cfg), "fen")) => game' = game]_vars

\* C20: within setConfig the board is handed the config without its fen
\* first, then the position is set (when the config has a fen), and the full
\* redraw is the last step: the position is never applied before the rest of
\* the config and nothing follows the redraw.
C20_SetThenPositionThenRedraw ==
    [][call'.op = "setConfig" =>
          /\ Times(trace', "board.set") = 1
          /\ Times(trace', "board.redrawAll") = 1
          /\ trace'[1].ev = "board.set"
          /\ ~HasKey(Handed(trace'), "fen")
          /\ trace'[Len(trace')].ev = "board.redrawAll"
          /\ Times(trace', "setPosition") =
                 (IF call'.flag \/ HasKey(Literal(call'.cfg), "fen") THEN 1 ELSE 0)
          /\ Times(trace', "setPosition") = 1 =>
                 /\ First(trace', "board.set") < First(trace', "setPosition")
                 /\ First(trace', "setPosition") < First(trace', "board.redrawAll")]_vars

\* C20 witness: setConfig({fen}) handed the board its (empty) rest, then set
\* the position the fen describes, then redrew
C20_Witness ==
    /\ call.op = "setConfig"
    /\ call.cfg = "fen"
    /\ ~call.flag
    /\ Len(trace) > 2
    /\ trace[1].ev = "board.set"
    /\ trace[2].ev = "setPosition"
    /\ trace[Len(trace)].ev = "board.redrawAll"
    /\ boardToString(game) = altPos
    /\ board.pieces = fenRead(altPos)

(***************************************************************************)
(* Properties of the position, the queries and the events (Spec)           *)
(***************************************************************************)

\* the position a setPosition of the host named
Snapshot(name) == IF name = "initialPos" THEN initialPos ELSE altPos

\* what C21 says of setPosition, but for movable.dests
PositionReplaced ==
    /\ game' = boardFromString(Snapshot(call'.cfg))
    /\ boardToString(game') = Snapshot(call'.cfg)
    /\ viewer' = Live
    /\ board'.pieces = EnginePieces(game')
    /\ board'.turnColor = EngineColor(game')

\* C21: setPosition(snapshot), from any reachable state, replaces the engine's
\* state with the snapshot, leaves the history viewer in Live, and on return
\* the board's pieces and turn color are those of the snapshot and
\* movable.dests is its legal-destination map when movable.free is false, the
\* empty map when movable.free is true.
C21_SetPositionReplaces ==
    [][call'.op = "setPosition" =>
          /\ PositionReplaced
          /\ board'.movable.dests = IF board'.movable.free THEN MapOf(<<>>)
                                    ELSE possibleMoves(game')]_vars

\* C21 as stated: on return movable.dests is the legal-destination map of the
\* snapshot.
C21_AsStated ==
    [][call'.op = "setPosition" =>
          /\ PositionReplaced
          /\ board'.movable.dests = possibleMoves(game')]_vars

\* C21 witness: setPosition replaced a position reached by play with the other
\* snapshot, and the board shows the snapshot with its destinations
C21_Witness ==
    /\ call.op = "setPosition"
    /\ call.cfg = "altPos"
    /\ call.over
    /\ boardToString(game) = altPos
    /\ ~isGameOver(game)
    /\ viewer = Live
    /\ board.pieces = EnginePieces(game)
    /\ board.turnColor = "black"
    /\ ~board.movable.free
    /\ board.movable.dests = possibleMoves(game)
    /\ board.movable.dests # possibleMoves(EngineInit)

\* C22: isMoveLegal(origin, destination) is a pure query: in every reachable
\* state it leaves the engine snapshot, the board state (pieces, turn color,
\* movable color and dests, selection), the history-viewer state and the
\* emitted-event log unchanged.
C22_IsMoveLegalPure ==
    [][call'.op = "isMoveLegal" =>
          /\ game' = game
          /\ boardToString(game') = boardToString(game)
          /\ board' = board
          /\ viewer' = viewer
          /\ Emitted(trace') = <<>>
          /\ micro' = micro
          /\ timers' = timers]_vars

\* C22 witness: after a move was played the host asked about a legal move and
\* was told so
C22_Witness ==
    /\ call.op = "isMoveLegal"
    /\ call.ret = "true"
    /\ game.ply > 0
    /\ isMoveLegal(St, call.orig, call.dest)

\* whether the destination map has an entry for from that lists to
Contains(dests, from, to) ==
    /\ from \in DOMAIN dests.entries
    /\ \E n \in 1..Len(dests.entries[from]) : dests.entries[from][n] = to

\* C26: the two legality queries agree in every reachable state:
\* isMoveLegal({from, to}) is true iff getPossibleMoves() has an entry for
\* from whose list contains to, and getPossibleMoves() has an entry for a key
\* iff the engine reports at least one legal action for that square.
C26_QueriesAgree ==
    /\ call.op = "isMoveLegal" =>
           (call.ret = "true" <=> Contains(getPossibleMoves(St), call.orig, call.dest))
    /\ call.op = "getPossibleMoves" =>
           /\ \A from \in BoardKeys, to \in BoardKeys :
                  isMoveLegal(St, from, to) <=> Contains(call.out, from, to)
           /\ \A key \in BoardKeys :
                  key \in DOMAIN call.out.entries <=>
                      Len(legalActionsBySquare(game, keyToSquareIndex(key))) > 0

\* C26 witness: after a move the host got a destination map other than the
\* first one, and it lists a move that isMoveLegal accepts
C26_Witness ==
    /\ call.op = "getPossibleMoves"
    /\ game.ply > 0
    /\ call.out # possibleMoves(EngineInit)
    /\ \E from \in QueryKeys, to \in QueryKeys :
           Contains(call.out, from, to) /\ isMoveLegal(St, from, to)

\* the movable color a state refresh leaves when movable.free is false
RefreshedColor(playerColor, turnColor) ==
    IF playerColor # "undefined" THEN playerColor ELSE turnColor

\* what C23 says of a move that ends the game
ForbiddenAtGameOver ==
    isGameOver(game') =>
        /\ board'.movable.color = "undefined"
        /\ Times(trace', "updateGameState") = 1
        /\ Times(trace', "forbidMoves") = 1
        /\ First(trace', "updateGameState") < First(trace', "forbidMoves")

\* C23: when a move() ends the game, on return the board's movable color is
\* unset, the state refresh of the same call having come before; when the
\* move does not end the game the movable color is the configured player
\* color or else the new turn color when movable.free is false, and 'both'
\* when movable.free is true.
C23_MovesForbiddenAtGameOver ==
    [][(call'.op = "move" /\ call'.ret = "true") =>
          /\ ForbiddenAtGameOver
          /\ ~isGameOver(game') =>
                 /\ Times(trace', "forbidMoves") = 0
                 /\ board'.movable.color =
                        IF board'.movable.free THEN "both"
                        ELSE RefreshedColor(props.playerColor, EngineColor(game'))]_vars

\* C23 as stated: when the move does not end the game the movable color is the
\* configured player color or else the new turn color.
C23_AsStated ==
    [][(call'.op = "move" /\ call'.ret = "true") =>
          /\ ForbiddenAtGameOver
          /\ ~isGameOver(game') =>
                 board'.movable.color = RefreshedColor(props.playerColor, EngineColor(game'))]_vars

\* C23 witness: a move captured the king of a game that was not over, and no
\* side may move on the board
C23_Witness ==
    /\ call.op = "move" /\ call.ret = "true"
    /\ ~call.over
    /\ KingDead(game)
    /\ isGameOver(game)
    /\ board.movable.color = "undefined"
    /\ trace[Len(trace)].ev = "forbidMoves"

\* the event that ends the game g, as the host receives it
GameEndEvent(g) ==
    IF draw(g) THEN Ev("emit.draw", NoKey, NoKey, "")
    ELSE Ev("emit.checkmate", NoKey, NoKey, EngineColor(g))

\* C24: on a move the 'move' event (when emitEvent is true) is emitted before
\* any game-end event; after a move that ends the game exactly one game-end
\* event follows, 'draw' if the engine reports a draw, otherwise 'checkmate'
\* with the color of the side to move in the resulting position; no operation
\* emits 'draw' or 'checkmate' while the engine reports the game is not over.
C24_MoveThenGameEnd ==
    [][/\ (call'.op = "move" /\ call'.ret = "true") =>
              Emitted(trace') =
                  (IF call'.flag THEN <<Ev("emit.move", call'.orig, call'.dest, "")>> ELSE <<>>)
                      \o (IF isGameOver(game') THEN <<GameEndEvent(game')>> ELSE <<>>)
       /\ ~isGameOver(game') =>
              Times(trace', "emit.draw") + Times(trace', "emit.checkmate") = 0]_vars

\* C24 witness: a move that captured the king emitted 'move' and then
\* 'checkmate' with the color of the side to move
C24_Witness ==
    /\ call.op = "move" /\ call.ret = "true" /\ call.flag
    /\ ~call.over
    /\ KingDead(game)
    /\ Emitted(trace) = <<Ev("emit.move", call.orig, call.dest, ""),
                          Ev("emit.checkmate", NoKey, NoKey, EngineColor(game))>>

(***************************************************************************)
(* Properties of resetBoard (SpecReset)                                    *)
(***************************************************************************)

\* the start position: the fen of the host's boardConfig, or the built-in one
StartPosition ==
    IF Truthy(Get(props.boardConfig, "fen")) THEN Get(props.boardConfig, "fen").snap
    ELSE initialPos

\* what C25 says of resetBoard, but for the player to move
BoardReset ==
    /\ boardToString(game') = StartPosition
    /\ game' = boardFromString(StartPosition)
    /\ viewer' = Live
    /\ board'.selected = NoKey
    /\ board'.pieces = EnginePieces(game')
    /\ board'.turnColor = EngineColor(game')
    /\ ~board'.movable.free
    /\ board'.movable.color = RefreshedColor(props.playerColor, EngineColor(game'))
    /\ board'.movable.dests = possibleMoves(game')
    /\ call.op = "resetBoard" =>
           /\ Program' = Program
           /\ St' = St

=============================================================================
